---- MODULE Spec2Model ----
(***************************************************************************)
(* Cart synchronizer of the ReadyDish storefront                           *)
(* (src/src/contexts/CartContext.tsx), together with the pieces of the     *)
(* application it talks to: the authentication flag of AuthContext, the    *)
(* cart REST endpoints of cartService, the browser's local storage, the    *)
(* error classifier and the checkout page that calls clearCart.            *)
(*                                                                         *)
(* React state is modelled as it is committed: a handler invoked by a UI   *)
(* event reads the state of the latest render, while the continuation of   *)
(* an async function after an await keeps the values its closure captured  *)
(* when the function was called.                                           *)
(***************************************************************************)
EXTENDS Integers, Sequences, FiniteSets, TLC

\* ---------------------------------------------------------------- bounds
MaxOps == 2         \* number of user operations in one behaviour
MaxInFlight == 2    \* number of HTTP requests awaiting their response
MaxQty == 2         \* largest quantity a line may reach

Dishes == {"d1", "d2"}
Rejectable == {"d2"}        \* dishes the remote may refuse to keep in a cart
AddQuantities == {-1, 0, 1}
UpdateQuantities == {-1, 0, 1, 2}

\* ------------------------------------------------------------ cart lines
\* A CartItem as it lives in memory, in local storage or in a response.
\* dish = "" stands for a missing dish / dish.id, numQty = FALSE for a
\* quantity that is not a number, price is "num", "str" or "undef".
\* origin is a history field: "anon" for a line created or stored by an
\* anonymous session, "auth" for a line created while logged in or returned
\* by the remote cart.
CartItem(d, q, org) ==
  [dish |-> d, quantity |-> q, numQty |-> TRUE, price |-> "num", origin |-> org]

BadItem(d, nq, p, org) ==
  [dish |-> d, quantity |-> 1, numQty |-> nq, price |-> p, origin |-> org]

\* localStorage.getItem(STORAGE_KEYS.CART): absent, a string that does not
\* parse to a list, or a list of entries.
Absent == [kind |-> "absent", list |-> <<>>]
Corrupt == [kind |-> "corrupt", list |-> <<>>]
Stored(its) == [kind |-> "list", list |-> its]

\* Values the cart entry of local storage may hold when the application
\* starts; org tells whether an anonymous or a logged-in session left them.
InitialStores(org) ==
  { Absent, Corrupt,
    Stored(<<BadItem("d2", FALSE, "num", org), CartItem("d1", 1, org),
             BadItem("", TRUE, "num", org), BadItem("d2", TRUE, "undef", org)>>) }

\* Carts the account may hold remotely when the application starts.
InitialRemotes ==
  { <<>>,
    <<CartItem("d2", 1, "auth"), BadItem("d1", TRUE, "undef", "auth"),
      CartItem("d1", 1, "auth")>> }

\* ------------------------------------------------------ error classifier
\* A JavaScript value as the classifier meets it in a response body:
\* undefined (t = "absent"), a string, a number or an array of such values.
Abs == [t |-> "absent", s |-> "", n |-> 0, arr |-> <<>>]
Str(x) == [t |-> "str", s |-> x, n |-> 0, arr |-> <<>>]
Num(k) == [t |-> "num", s |-> "", n |-> k, arr |-> <<>>]
Arr(a) == [t |-> "arr", s |-> "", n |-> 0, arr |-> a]

\* if (value): undefined, "" and 0 are falsy, an array is truthy
Truthy(v) == (v.t = "str" /\ v.s # "") \/ (v.t = "num" /\ v.n # 0) \/ v.t = "arr"

\* String(value), as new Error(value).message and a template literal give it
ErrorText(v) ==
  CASE v.t = "str" -> v.s
    [] v.t = "num" -> ToString(v.n)
    [] v.t = "arr" -> "[array]"
    [] OTHER -> ""

\* error.response.data: isObject = FALSE is a body that is no object; errors
\* holds Object.values(data.errors), hasErrors = FALSE when there is no such
\* field
Body(e, m, hasErrors, values) ==
  [isObject |-> TRUE, error |-> e, message |-> m, hasErrors |-> hasErrors, errors |-> values]

NoBody == [isObject |-> FALSE, error |-> Abs, message |-> Abs, hasErrors |-> FALSE, errors |-> <<>>]
EmptyBody == Body(Abs, Abs, FALSE, <<>>)

\* A response header read through parseInt: missing, a number, or a text
\* that parses to NaN.
Missing == [present |-> FALSE, nan |-> FALSE, n |-> 0]
Header(k) == [present |-> TRUE, nan |-> FALSE, n |-> k]
NaNHeader == [present |-> TRUE, nan |-> TRUE, n |-> 0]

Headers(limit, remaining, reset, retryAfter) ==
  [limit |-> limit, remaining |-> remaining, reset |-> reset, retryAfter |-> retryAfter]

NoHeaders == Headers(Missing, Missing, Missing, Missing)

\* An AxiosError: response = FALSE is a connection failure that is neither a
\* timeout nor a "Network Error".  A plain Error has axios = FALSE and its
\* message in text.
AxiosFailure(status, body, headers) ==
  [axios |-> TRUE, response |-> TRUE, status |-> status, body |-> body,
   headers |-> headers, text |-> ""]

PlainError(text) ==
  [axios |-> FALSE, response |-> FALSE, status |-> 0, body |-> NoBody,
   headers |-> NoHeaders, text |-> text]

NoFailure ==
  [axios |-> TRUE, response |-> FALSE, status |-> 0, body |-> NoBody,
   headers |-> NoHeaders, text |-> ""]

\* failures a request to the cart or order endpoints may end with
Failures ==
  { AxiosFailure(500, EmptyBody, NoHeaders),
    AxiosFailure(400, Body(Str("Dish is not available"), Abs, FALSE, <<>>), NoHeaders) }

\* parseInt of a header, 0 when the header is missing
ParsedOrZero(h) == IF h.present THEN [nan |-> h.nan, n |-> h.n] ELSE [nan |-> FALSE, n |-> 0]

\* comparisons of a parsed number: every comparison with NaN is false
Gt(x, k) == ~x.nan /\ x.n > k
Ge(x, k) == ~x.nan /\ x.n >= k
Lt(x, k) == ~x.nan /\ x.n < k
Le(x, k) == ~x.nan /\ x.n <= k
NumText(x) == IF x.nan THEN "NaN" ELSE ToString(x.n)
Plural(x) == IF ~x.nan /\ x.n = 1 THEN "" ELSE "s"
DivFloor(x, k) == [nan |-> x.nan, n |-> x.n \div k]

NoRateLimitInfo ==
  [present |-> FALSE, limit |-> [nan |-> FALSE, n |-> 0],
   remaining |-> [nan |-> FALSE, n |-> 0], reset |-> [nan |-> FALSE, n |-> 0],
   hasRetryAfter |-> FALSE, retryAfter |-> [nan |-> FALSE, n |-> 0]]

getRateLimitInfoAnyStatus(f) ==
  IF f.axios /\ f.response
  THEN LET limit == ParsedOrZero(f.headers.limit)
           remaining == ParsedOrZero(f.headers.remaining)
           reset == ParsedOrZero(f.headers.reset)
       IN IF Gt(limit, 0) \/ Ge(remaining, 0) \/ Gt(reset, 0)
          THEN [present |-> TRUE, limit |-> limit, remaining |-> remaining,
                reset |-> reset,
                hasRetryAfter |-> f.headers.retryAfter.present,
                retryAfter |-> ParsedOrZero(f.headers.retryAfter)]
          ELSE NoRateLimitInfo
  ELSE NoRateLimitInfo

getRateLimitInfo(f) ==
  IF f.axios /\ f.response /\ f.status = 429
  THEN LET limit == ParsedOrZero(f.headers.limit)
           remaining == ParsedOrZero(f.headers.remaining)
           reset == ParsedOrZero(f.headers.reset)
       IN IF Gt(limit, 0) \/ Ge(remaining, 0) \/ Gt(reset, 0)
          THEN [present |-> TRUE, limit |-> limit, remaining |-> remaining,
                reset |-> reset,
                hasRetryAfter |-> f.headers.retryAfter.present,
                retryAfter |-> ParsedOrZero(f.headers.retryAfter)]
          ELSE NoRateLimitInfo
  ELSE NoRateLimitInfo

formatRetryTimeAlwaysPlural(reset, now) ==
  LET seconds == [nan |-> reset.nan, n |-> reset.n - now]
      minutes == DivFloor(seconds, 60)
      hours == DivFloor(minutes, 60)
  IN IF Le(seconds, 0) THEN "now"
     ELSE IF Lt(seconds, 60) THEN "in " \o NumText(seconds) \o " seconds"
     ELSE IF Lt(minutes, 60) THEN "in " \o NumText(minutes) \o " minutes"
     ELSE "in " \o NumText(hours) \o " hours"

\* formatRetryTime at the time now = Math.floor(Date.now() / 1000)
formatRetryTime(reset, now) ==
  LET seconds == [nan |-> reset.nan, n |-> reset.n - now]
      minutes == DivFloor(seconds, 60)
      hours == DivFloor(minutes, 60)
  IN IF Le(seconds, 0) THEN "now"
     ELSE IF Lt(seconds, 60) THEN "in " \o NumText(seconds) \o " second" \o Plural(seconds)
     ELSE IF Lt(minutes, 60) THEN "in " \o NumText(minutes) \o " minute" \o Plural(minutes)
     ELSE "in " \o NumText(hours) \o " hour" \o Plural(hours)

getRateLimitMessageResetFirst(f, now) ==
  LET info == getRateLimitInfo(f)
      minutes == DivFloor(info.retryAfter, 60)
      hours == DivFloor(minutes, 60)
  IN IF ~info.present THEN ""
     ELSE IF Gt(info.reset, 0)
     THEN "Too many attempts. You can try again " \o formatRetryTime(info.reset, now) \o "."
     ELSE IF info.hasRetryAfter
     THEN IF Lt(info.retryAfter, 60)
          THEN "Too many attempts. Please try again in " \o NumText(info.retryAfter)
                 \o " second" \o Plural(info.retryAfter) \o "."
          ELSE IF Lt(minutes, 60)
          THEN "Too many attempts. Please try again in " \o NumText(minutes)
                 \o " minute" \o Plural(minutes) \o "."
          ELSE "Too many attempts. Please try again in " \o NumText(hours)
                 \o " hour" \o Plural(hours) \o "."
     ELSE IF Gt(info.limit, 0) /\ Ge(info.remaining, 0)
     THEN "Too many attempts. " \o NumText(info.remaining) \o " attempt"
            \o Plural(info.remaining) \o " remaining. Please try again later."
     ELSE "Too many attempts. Please try again later."

\* getRateLimitMessage; "" stands for null
getRateLimitMessage(f, now) ==
  LET info == getRateLimitInfo(f)
      minutes == DivFloor(info.retryAfter, 60)
      hours == DivFloor(minutes, 60)
  IN IF ~info.present THEN ""
     ELSE IF info.hasRetryAfter
     THEN IF Lt(info.retryAfter, 60)
          THEN "Too many attempts. Please try again in " \o NumText(info.retryAfter)
                 \o " second" \o Plural(info.retryAfter) \o "."
          ELSE IF Lt(minutes, 60)
          THEN "Too many attempts. Please try again in " \o NumText(minutes)
                 \o " minute" \o Plural(minutes) \o "."
          ELSE "Too many attempts. Please try again in " \o NumText(hours)
                 \o " hour" \o Plural(hours) \o "."
     ELSE IF Gt(info.reset, 0)
     THEN "Too many attempts. You can try again " \o formatRetryTime(info.reset, now) \o "."
     ELSE IF Gt(info.limit, 0) /\ Ge(info.remaining, 0)
     THEN "Too many attempts. " \o NumText(info.remaining) \o " attempt"
            \o Plural(info.remaining) \o " remaining. Please try again later."
     ELSE "Too many attempts. Please try again later."

StatusMessageNoGatewayCases(f, now) ==
  CASE f.status = 400 -> "Invalid request. Please check your input and try again."
    [] f.status = 401 -> "Invalid credentials. Please check your email and password."
    [] f.status = 403 -> "You do not have permission to perform this action."
    [] f.status = 404 -> "The requested resource was not found."
    [] f.status = 500 -> "Server error. Please try again later."
    [] OTHER -> "An error occurred (" \o ToString(f.status) \o "). Please try again."

\* the fixed table keyed by HTTP status
StatusMessage(f, now) ==
  CASE f.status = 400 -> "Invalid request. Please check your input and try again."
    [] f.status = 401 -> "Invalid credentials. Please check your email and password."
    [] f.status = 403 -> "You do not have permission to perform this action."
    [] f.status = 404 -> "The requested resource was not found."
    [] f.status = 429 ->
         IF getRateLimitMessage(f, now) # ""
         THEN getRateLimitMessage(f, now)
         ELSE "Too many requests. Please wait a moment and try again."
    [] f.status = 500 -> "Server error. Please try again later."
    [] f.status \in {502, 503, 504} ->
         "Service temporarily unavailable. Please try again later."
    [] OTHER -> "An error occurred (" \o ToString(f.status) \o "). Please try again."

\* the value getErrorMessage returns at the time now
ErrorMessageAt(f, now) ==
  IF ~f.axios THEN Str(f.text)
  ELSE IF ~f.response THEN Str("Unable to connect to server. Please try again later.")
  ELSE LET data == f.body IN
    IF data.isObject /\ data.error.t = "str" /\ data.error.s # "" THEN data.error
    ELSE IF data.isObject /\ data.message.t = "str" /\ data.message.s # "" THEN data.message
    ELSE IF Truthy(data.error) THEN data.error
    ELSE IF Truthy(data.message) THEN data.message
    ELSE IF data.hasErrors /\ data.errors # <<>> /\ data.errors[1].t = "str"
         THEN data.errors[1]
    ELSE IF data.hasErrors /\ data.errors # <<>> /\ data.errors[1].t = "arr"
              /\ data.errors[1].arr # <<>>
         THEN data.errors[1].arr[1]
    ELSE Str(StatusMessage(f, now))

\* ------------------------------------------------------- pure cart logic
\* items.findIndex((item) => item.dish.id === dishId); 0 when none
RECURSIVE FindFrom(_, _, _)
FindFrom(its, d, i) ==
  IF i > Len(its) THEN 0
  ELSE IF its[i].dish = d THEN i
  ELSE FindFrom(its, d, i + 1)

findIndex(its, d) == FindFrom(its, d, 1)

\* the filter of the local-storage branches of loadCart
ValidLocalItem(item) == item.dish # "" /\ item.numQty

\* the filter of the remote branch of loadCart
ValidRemoteItem(item) == item.dish # "" /\ item.numQty /\ item.price # "undef"

FilterLocal(its) == SelectSeq(its, ValidLocalItem)
FilterRemote(its) == SelectSeq(its, ValidRemoteItem)

\* newItems of addToCart
AddItemsAlwaysAppend(its, d, q, org) == Append(its, CartItem(d, q, org))

AddItemsReplaceQuantity(its, d, q, org) ==
  LET idx == findIndex(its, d) IN
  IF idx > 0
  THEN [i \in 1..Len(its) |-> IF i = idx THEN [its[i] EXCEPT !.quantity = q] ELSE its[i]]
  ELSE Append(its, CartItem(d, q, org))

AddItems(its, d, q, org) ==
  LET idx == findIndex(its, d) IN
  IF idx > 0
  THEN [i \in 1..Len(its) |->
          IF i = idx THEN [its[i] EXCEPT !.quantity = its[i].quantity + q] ELSE its[i]]
  ELSE Append(its, CartItem(d, q, org))

\* newItems of removeFromCart
RemoveItems(its, d) == SelectSeq(its, LAMBDA item : item.dish # d)

\* newItems of updateQuantity, the delegation to removeFromCart included
UpdateItemsRemoveOnZeroOnly(its, d, q) ==
  IF q = 0 THEN RemoveItems(its, d)
  ELSE [i \in 1..Len(its) |->
          IF its[i].dish = d THEN [its[i] EXCEPT !.quantity = q] ELSE its[i]]

UpdateItems(its, d, q) ==
  IF q <= 0 THEN RemoveItems(its, d)
  ELSE [i \in 1..Len(its) |->
          IF its[i].dish = d THEN [its[i] EXCEPT !.quantity = q] ELSE its[i]]

\* itemsToSync of syncToBackend
ItemsToSyncUnitQuantity(its) == [i \in 1..Len(its) |-> [dishId |-> its[i].dish, quantity |-> 1]]

ItemsToSync(its) == [i \in 1..Len(its) |-> [dishId |-> its[i].dish, quantity |-> its[i].quantity]]

\* The cart the remote builds from a PUT body; it drops the lines of the
\* dishes it rejects and returns full lines of its own.
RemoteCartOf(sent, rejected) ==
  LET kept == SelectSeq(sent, LAMBDA p : p.dishId \notin rejected) IN
  [i \in 1..Len(kept) |-> CartItem(kept[i].dishId, kept[i].quantity, "auth")]

\* the lines of a list as a set: dish id with quantity
Lines(its) == {<<its[i].dish, its[i].quantity>> : i \in 1..Len(its)}

QtyInRange(its) == \A i \in 1..Len(its) : its[i].quantity \in 0..MaxQty

\* dish.price of the dishes whose price is a number
PriceOf == [d \in Dishes \cup {""} |-> IF d = "d1" THEN 3 ELSE 5]

\* totalItems: items.reduce, skipping a line whose quantity is not a number
RECURSIVE totalItems(_)
totalItems(its) ==
  IF its = <<>> THEN 0
  ELSE LET item == its[Len(its)]
           sum == totalItems(SubSeq(its, 1, Len(its) - 1))
       IN IF ~item.numQty THEN sum ELSE sum + item.quantity

\* totalPrice: items.reduce, skipping a line whose price or quantity is not
\* a number
RECURSIVE totalPrice(_)
totalPrice(its) ==
  IF its = <<>> THEN 0
  ELSE LET item == its[Len(its)]
           sum == totalPrice(SubSeq(its, 1, Len(its) - 1))
       IN IF item.price # "num" \/ ~item.numQty THEN sum
          ELSE sum + PriceOf[item.dish] * item.quantity


\* ----------------------------------------------------------------- state
VARIABLES
  phase,            \* "constructed" before the mount effects ran, then "mounted"
  storedSession,    \* localStorage holds AUTH_TOKEN and a valid USER
  isAuthenticated,  \* AuthContext: !!user
  items,            \* CartProvider: useState<CartItem[]>
  isLoading,        \* CartProvider: useState(false)
  localCart,        \* localStorage[STORAGE_KEYS.CART]
  remoteCart,       \* the account's cart behind GET/PUT/DELETE /cart
  net,              \* requests awaiting their response, in the order issued
  outcome,          \* what the last step completed, for the caller to see
  nOps,             \* user operations so far
  added,            \* history: the dishes the user added and has not removed since
  form,             \* Login / Signup page: its useState values and the attempt
  clock,            \* Math.floor(Date.now() / 1000)
  thrown,           \* the error the last rejected authService call threw
  session           \* AuthProvider state, the auth entries of localStorage,
                    \* and whether window.location.href was assigned

cartVars == <<phase, storedSession, isAuthenticated, items, isLoading, localCart, remoteCart, net, outcome, nOps, added>>

pageVars == <<form, clock, thrown, session>>

vars == <<phase, storedSession, isAuthenticated, items, isLoading, localCart, remoteCart, net, outcome, nOps, added, form, clock, thrown, session>>

\* getErrorMessage, which reads the time through formatRetryTime
getErrorMessage(f) == ErrorMessageAt(f, clock)

\* The state of the Login or Signup component.  rateLimitReset.set = FALSE
\* is null, error = "" is null; attempt is "idle", "pending" while the
\* submit awaits, "rejected" or "done".
\* user: AuthContext's user is not null; isLoading: AuthContext's isLoading;
\* token: localStorage holds AUTH_TOKEN; storedUser: what localStorage holds
\* under USER ("absent", "corrupt" text that JSON.parse rejects, "invalid"
\* when id, email or role is missing, "valid"); reloading: the interceptor
\* assigned window.location.href and the document has not been replaced yet
AuthState(user, loading, token, storedUser) ==
  [user |-> user, isLoading |-> loading, token |-> token, storedUser |-> storedUser,
   reloading |-> FALSE]

InitialForm(page) ==
  [page |-> page, isLoading |-> FALSE, error |-> "",
   rateLimitReset |-> [set |-> FALSE, n |-> 0], retryCountdown |-> "",
   attempt |-> "idle"]

\* A request in flight together with what the awaiting async function
\* holds in its closure.  state is "sent" until the remote has handled it.
\* overtaken is a history field: the response of a PUT issued later has
\* been delivered already.  persisted is a history field of a GET: <<X>>
\* when the load was called right after the persist of the list X had
\* completed, <<>> otherwise.
Request(kind, sent, optimistic, auth) ==
  [kind |-> kind, sent |-> sent, optimistic |-> optimistic,
   state |-> "sent", resp |-> <<>>, capturedAuth |-> auth, overtaken |-> FALSE,
   persisted |-> <<>>]

NoRequest ==
  [kind |-> "none", sent |-> <<>>, optimistic |-> <<>>,
   state |-> "sent", resp |-> <<>>, capturedAuth |-> FALSE, overtaken |-> FALSE,
   persisted |-> <<>>]

\* The user operation a step belongs to: its name and arguments.
Call(name, d, q) == [name |-> name, dish |-> d, qty |-> q]

NoCall == Call("", "", 0)

\* What the last step did to an operation of the cart: op is "load",
\* "persist", "clear" or "checkout"; status is "pending" when the operation
\* went to await a response, "resolved" or "rejected" when its promise
\* settled; req is the request whose response settled it (kind "none" when
\* it settled without one, state "fail" when the request failed).
Outcome(op, status, message, failure, req, call) ==
  [op |-> op, status |-> status, message |-> message,
   failure |-> failure, req |-> req, call |-> call]

NoOutcome == Outcome("none", "none", "", NoFailure, NoRequest, NoCall)

Pending(op, call) == Outcome(op, "pending", "", NoFailure, NoRequest, call)

Resolved(op, req, call) == Outcome(op, "resolved", "", NoFailure, req, call)

Failed(req) == [req EXCEPT !.state = "fail"]

\* history bookkeeping on the requests that stay in flight
RemoveAt(n, i) == SubSeq(n, 1, i - 1) \o SubSeq(n, i + 1, Len(n))

Overtake(n, i) ==
  [j \in 1..Len(n) |->
     IF j < i /\ n[j].kind = "PUT" THEN [n[j] EXCEPT !.overtaken = TRUE] ELSE n[j]]

Init ==
  /\ phase = "constructed"
  /\ isAuthenticated = FALSE
  /\ items = <<>>
  /\ isLoading = FALSE
  /\ storedSession \in BOOLEAN
  /\ localCart \in InitialStores(IF storedSession THEN "auth" ELSE "anon")
  /\ remoteCart \in InitialRemotes
  /\ net = <<>>
  /\ outcome = NoOutcome
  /\ nOps = 0
  /\ added = {}
  /\ form = InitialForm("login")
  /\ clock = 0
  /\ thrown = NoFailure
  /\ session = AuthState(FALSE, FALSE, FALSE, "absent")

\* -------------------------------------------------------------- loadCart
\* unauthenticated branch: an absent entry leaves items alone
LocalLoadItems(its, store) ==
  IF store.kind = "list" THEN FilterLocal(store.list)
  ELSE IF store.kind = "corrupt" THEN <<>>
  ELSE its

\* catch branch of the authenticated load
FallbackItems(store) ==
  IF store.kind = "list" THEN FilterLocal(store.list) ELSE <<>>

\* history: the list whose PUT the previous step saw succeed, nothing else
\* being in flight
JustPersisted ==
  IF /\ net = <<>>
     /\ outcome.op = "persist" /\ outcome.status = "resolved"
     /\ outcome.req.kind = "PUT"
  THEN <<outcome.req.optimistic>>
  ELSE <<>>

\* loadCart as the closure of the render with authentication flag auth
LoadCartWith(auth, call) ==
  IF ~auth
  THEN /\ items' = LocalLoadItems(items, localCart)
       /\ net' = net
       /\ outcome' = Resolved("load", NoRequest, call)
       /\ UNCHANGED <<isLoading, localCart, remoteCart>>
  ELSE /\ Len(net) < MaxInFlight
       /\ isLoading' = TRUE
       /\ net' = Append(net, [Request("GET", <<>>, <<>>, auth)
                                  EXCEPT !.persisted = JustPersisted])
       /\ outcome' = Pending("load", call)
       /\ UNCHANGED <<items, localCart, remoteCart>>

\* The effects of the first commit: CartProvider's useEffect runs loadCart
\* with user still null, then AuthProvider's loadUser restores a stored
\* session with setUser, and the cart effect reruns with the new loadCart.
Mount ==
  /\ phase = "constructed"
  /\ phase' = "mounted"
  /\ items' = LocalLoadItems(items, localCart)
  /\ isAuthenticated' = storedSession
  /\ IF storedSession
     THEN /\ isLoading' = TRUE
          /\ net' = Append(net, Request("GET", <<>>, <<>>, TRUE))
          /\ outcome' = Pending("load", Call("mount", "", 0))
     ELSE /\ isLoading' = isLoading
          /\ net' = net
          /\ outcome' = Resolved("load", NoRequest, Call("mount", "", 0))
  /\ UNCHANGED <<storedSession, localCart, remoteCart, nOps>>
  /\ UNCHANGED pageVars
  /\ UNCHANGED added

\* setUser(user) by login or by the stored session, then the effect reruns
Login ==
  /\ phase = "mounted"
  /\ ~isAuthenticated
  /\ nOps < MaxOps
  /\ nOps' = nOps + 1
  /\ isAuthenticated' = TRUE
  /\ storedSession' = TRUE
  /\ LoadCartWith(TRUE, Call("login", "", 0))
  /\ UNCHANGED phase
  /\ UNCHANGED pageVars
  /\ UNCHANGED added

\* setUser(null), then the effect reruns
Logout ==
  /\ phase = "mounted"
  /\ isAuthenticated
  /\ nOps < MaxOps
  /\ nOps' = nOps + 1
  /\ isAuthenticated' = FALSE
  /\ storedSession' = FALSE
  /\ LoadCartWith(FALSE, Call("logout", "", 0))
  /\ UNCHANGED phase
  /\ UNCHANGED pageVars
  /\ UNCHANGED added

\* loadCart() called through the context
LoadCart ==
  /\ phase = "mounted"
  /\ nOps < MaxOps
  /\ nOps' = nOps + 1
  /\ LoadCartWith(isAuthenticated, Call("loadCart", "", 0))
  /\ UNCHANGED <<phase, storedSession, isAuthenticated>>
  /\ UNCHANGED pageVars
  /\ UNCHANGED added

\* --------------------------------------------------- mutations and persist
\* setItems(newItems); await syncToBackend(newItems) up to its first await
SyncToBackendSkipsLocalWrite(newItems, call) ==
  /\ items' = newItems
  /\ localCart' = localCart
  /\ IF ~isAuthenticated
     THEN /\ net' = net
          /\ outcome' = Resolved("persist", NoRequest, call)
     ELSE /\ Len(net) < MaxInFlight
          /\ net' = Append(net,
                           Request("PUT", ItemsToSync(newItems), newItems, TRUE))
          /\ outcome' = Pending("persist", call)

SyncToBackend(newItems, call) ==
  /\ items' = newItems
  /\ IF ~isAuthenticated
     THEN /\ localCart' = Stored(newItems)
          /\ net' = net
          /\ outcome' = Resolved("persist", NoRequest, call)
     ELSE /\ Len(net) < MaxInFlight
          /\ localCart' = localCart
          /\ net' = Append(net,
                           Request("PUT", ItemsToSync(newItems), newItems, TRUE))
          /\ outcome' = Pending("persist", call)

UserCall ==
  /\ phase = "mounted"
  /\ nOps < MaxOps
  /\ nOps' = nOps + 1
  /\ UNCHANGED <<phase, storedSession, isAuthenticated, isLoading, remoteCart>>
  /\ UNCHANGED pageVars

UserOp ==
  /\ UserCall
  /\ UNCHANGED added

AddToCart(d, q) ==
  LET newItems == AddItems(items, d, q, IF isAuthenticated THEN "auth" ELSE "anon") IN
  /\ UserOp
  /\ QtyInRange(newItems)
  /\ SyncToBackend(newItems, Call("addToCart", d, q))

RemoveFromCart(d) ==
  /\ UserOp
  /\ SyncToBackend(RemoveItems(items, d), Call("removeFromCart", d, 0))

UpdateQuantity(d, q) ==
  /\ UserOp
  /\ SyncToBackend(UpdateItems(items, d, q), Call("updateQuantity", d, q))

\* clearCart as the closure of the render with authentication flag auth,
\* called while the requests rest are in flight
ClearCartWith(auth, rest, call) ==
  IF auth
  THEN /\ net' = Append(rest, Request("DELETE", <<>>, <<>>, auth))
       /\ outcome' = Pending("clear", call)
       /\ UNCHANGED <<items, localCart>>
  ELSE /\ items' = <<>>
       /\ localCart' = Absent
       /\ net' = rest
       /\ outcome' = Resolved("clear", NoRequest, call)

ClearCart ==
  /\ UserOp
  /\ isAuthenticated => Len(net) < MaxInFlight
  /\ ClearCartWith(isAuthenticated, net, Call("clearCart", "", 0))

CheckoutAlwaysOrders ==
  /\ UserOp
  /\ isAuthenticated
  /\ Len(net) < MaxInFlight
  /\ outcome' = Pending("checkout", Call("checkout", "", 0))
  /\ net' = Append(net, Request("ORDER", ItemsToSync(items), items, isAuthenticated))
  /\ UNCHANGED <<items, localCart>>

\* Checkout.onSubmit up to await orderService.placeOrder; the page sits
\* behind ProtectedRoute, and its closure holds the clearCart of this render
Checkout ==
  /\ UserOp
  /\ isAuthenticated
  /\ Len(net) < MaxInFlight
  /\ IF items = <<>>
     THEN /\ outcome' = Outcome("checkout", "empty", "Your cart is empty",
                                NoFailure, NoRequest, Call("checkout", "", 0))
          /\ net' = net
     ELSE /\ outcome' = Pending("checkout", Call("checkout", "", 0))
          /\ net' = Append(net, Request("ORDER", ItemsToSync(items), items, isAuthenticated))
  /\ UNCHANGED <<items, localCart>>


\* ------------------------------------------------------------ the remote
Handled(i, resp) == [net EXCEPT ![i].state = "ok", ![i].resp = resp]

RemoteIdle ==
  /\ outcome' = NoOutcome
  /\ UNCHANGED <<phase, storedSession, isAuthenticated, items, isLoading, localCart, nOps>>
  /\ UNCHANGED pageVars
  /\ UNCHANGED added

\* PUT /cart replaces the entire cart
RemotePut(i, rejected) ==
  /\ net[i].kind = "PUT" /\ net[i].state = "sent"
  /\ remoteCart' = RemoteCartOf(net[i].sent, rejected)
  /\ net' = Handled(i, remoteCart')
  /\ RemoteIdle

RemoteGet(i) ==
  /\ net[i].kind = "GET" /\ net[i].state = "sent"
  /\ net' = Handled(i, remoteCart)
  /\ UNCHANGED remoteCart
  /\ RemoteIdle

RemoteDelete(i) ==
  /\ net[i].kind = "DELETE" /\ net[i].state = "sent"
  /\ remoteCart' = <<>>
  /\ net' = Handled(i, <<>>)
  /\ RemoteIdle

RemoteOrder(i) ==
  /\ net[i].kind = "ORDER" /\ net[i].state = "sent"
  /\ net' = Handled(i, <<>>)
  /\ UNCHANGED remoteCart
  /\ RemoteIdle

\* ------------------------------------------- continuations after an await
Settled ==
  /\ UNCHANGED <<phase, storedSession, isAuthenticated, remoteCart, nOps>>
  /\ UNCHANGED pageVars
  /\ UNCHANGED added

\* syncToBackend after await cartService.updateCart: adopt the response
PutResolvedUnlessOvertaken(i) ==
  /\ net[i].kind = "PUT" /\ net[i].state = "ok"
  /\ IF net[i].overtaken
     THEN UNCHANGED <<items, localCart>>
     ELSE /\ items' = net[i].resp
          /\ localCart' = Stored(net[i].resp)
  /\ net' = RemoveAt(Overtake(net, i), i)
  /\ outcome' = Resolved("persist", net[i], NoCall)
  /\ UNCHANGED isLoading
  /\ Settled

PutResolved(i) ==
  /\ net[i].kind = "PUT" /\ net[i].state = "ok"
  /\ items' = net[i].resp
  /\ localCart' = Stored(net[i].resp)
  /\ net' = RemoveAt(Overtake(net, i), i)
  /\ outcome' = Resolved("persist", net[i], NoCall)
  /\ UNCHANGED isLoading
  /\ Settled

\* syncToBackend's catch: throw new Error(getErrorMessage(error))
PutRejectedReverts(i, f) ==
  /\ net[i].kind = "PUT" /\ net[i].state = "sent"
  /\ net' = RemoveAt(net, i)
  /\ outcome' = Outcome("persist", "rejected", ErrorText(getErrorMessage(f)), f, Failed(net[i]), NoCall)
  /\ items' = FallbackItems(localCart)
  /\ UNCHANGED <<localCart, isLoading>>
  /\ Settled

PutRejected(i, f) ==
  /\ net[i].kind = "PUT" /\ net[i].state = "sent"
  /\ net' = RemoveAt(net, i)
  /\ outcome' = Outcome("persist", "rejected", ErrorText(getErrorMessage(f)), f, Failed(net[i]), NoCall)
  /\ UNCHANGED <<items, localCart, isLoading>>
  /\ Settled

\* loadCart after await cartService.getCart
GetResolvedNoMirror(i) ==
  /\ net[i].kind = "GET" /\ net[i].state = "ok"
  /\ items' = FilterRemote(net[i].resp)
  /\ isLoading' = FALSE
  /\ net' = RemoveAt(net, i)
  /\ outcome' = Resolved("load", net[i], NoCall)
  /\ UNCHANGED localCart
  /\ Settled

GetResolved(i) ==
  /\ net[i].kind = "GET" /\ net[i].state = "ok"
  /\ items' = FilterRemote(net[i].resp)
  /\ localCart' = Stored(items')
  /\ isLoading' = FALSE
  /\ net' = RemoveAt(net, i)
  /\ outcome' = Resolved("load", net[i], NoCall)
  /\ Settled

\* loadCart's catch: fall back to local storage
GetRejectedKeepsItems(i) ==
  /\ net[i].kind = "GET" /\ net[i].state = "sent"
  /\ items' = LocalLoadItems(items, localCart)
  /\ isLoading' = FALSE
  /\ net' = RemoveAt(net, i)
  /\ outcome' = Resolved("load", Failed(net[i]), NoCall)
  /\ UNCHANGED localCart
  /\ Settled

GetRejected(i) ==
  /\ net[i].kind = "GET" /\ net[i].state = "sent"
  /\ items' = FallbackItems(localCart)
  /\ isLoading' = FALSE
  /\ net' = RemoveAt(net, i)
  /\ outcome' = Resolved("load", Failed(net[i]), NoCall)
  /\ UNCHANGED localCart
  /\ Settled

\* clearCart after await cartService.clearCart
DeleteResolved(i) ==
  /\ net[i].kind = "DELETE" /\ net[i].state = "ok"
  /\ items' = <<>>
  /\ localCart' = Absent
  /\ net' = RemoveAt(net, i)
  /\ outcome' = Resolved("clear", net[i], NoCall)
  /\ UNCHANGED isLoading
  /\ Settled

\* clearCart's catch swallows the failure
DeleteRejectedSurfaces(i, f) ==
  /\ net[i].kind = "DELETE" /\ net[i].state = "sent"
  /\ net' = RemoveAt(net, i)
  /\ outcome' = Outcome("clear", "rejected", ErrorText(getErrorMessage(f)), f, Failed(net[i]), NoCall)
  /\ UNCHANGED <<items, localCart, isLoading>>
  /\ Settled

DeleteRejected(i, f) ==
  /\ net[i].kind = "DELETE" /\ net[i].state = "sent"
  /\ items' = <<>>
  /\ localCart' = Absent
  /\ net' = RemoveAt(net, i)
  /\ outcome' = Resolved("clear", Failed(net[i]), NoCall)
  /\ UNCHANGED isLoading
  /\ Settled

\* Checkout.onSubmit after await orderService.placeOrder: await clearCart()
\* with the clearCart its closure captured
OrderResolved(i) ==
  /\ net[i].kind = "ORDER" /\ net[i].state = "ok"
  /\ ClearCartWith(net[i].capturedAuth, RemoveAt(net, i), Call("checkout", "", 0))
  /\ UNCHANGED isLoading
  /\ Settled

\* Checkout.onSubmit's catch
OrderRejected(i, f) ==
  /\ net[i].kind = "ORDER" /\ net[i].state = "sent"
  /\ net' = RemoveAt(net, i)
  /\ outcome' = Outcome("checkout", "rejected", ErrorText(getErrorMessage(f)), f, Failed(net[i]), NoCall)
  /\ UNCHANGED <<items, localCart, isLoading>>
  /\ Settled

\* ------------------------------------------------------------------ next
AddToCartStep == \E d \in Dishes, q \in AddQuantities : AddToCart(d, q)
RemoveFromCartStep == \E d \in Dishes : RemoveFromCart(d)
UpdateQuantityStep == \E d \in Dishes, q \in UpdateQuantities : UpdateQuantity(d, q)
RemotePutStep == \E i \in 1..Len(net), rejected \in SUBSET Rejectable : RemotePut(i, rejected)
RemoteGetStep == \E i \in 1..Len(net) : RemoteGet(i)
RemoteDeleteStep == \E i \in 1..Len(net) : RemoteDelete(i)
RemoteOrderStep == \E i \in 1..Len(net) : RemoteOrder(i)
PutResolvedStep == \E i \in 1..Len(net) : PutResolved(i)
PutRejectedStep == \E i \in 1..Len(net), f \in Failures : PutRejected(i, f)
GetResolvedStep == \E i \in 1..Len(net) : GetResolved(i)
GetRejectedStep == \E i \in 1..Len(net) : GetRejected(i)
DeleteResolvedStep == \E i \in 1..Len(net) : DeleteResolved(i)
DeleteRejectedStep == \E i \in 1..Len(net), f \in Failures : DeleteRejected(i, f)
OrderResolvedStep == \E i \in 1..Len(net) : OrderResolved(i)
OrderRejectedStep == \E i \in 1..Len(net), f \in Failures : OrderRejected(i, f)

\* what the user and the pages do
UserStep ==
  \/ Login
  \/ Logout
  \/ LoadCart
  \/ AddToCartStep
  \/ RemoveFromCartStep
  \/ UpdateQuantityStep
  \/ ClearCart
  \/ Checkout

\* what the remote and the awaiting continuations do
SystemStep ==
  \/ RemotePutStep
  \/ RemoteGetStep
  \/ RemoteDeleteStep
  \/ RemoteOrderStep
  \/ PutResolvedStep
  \/ PutRejectedStep
  \/ GetResolvedStep
  \/ GetRejectedStep
  \/ DeleteResolvedStep
  \/ DeleteRejectedStep
  \/ OrderResolvedStep
  \/ OrderRejectedStep

Next ==
  \/ Mount
  \/ Login
  \/ Logout
  \/ LoadCart
  \/ AddToCartStep
  \/ RemoveFromCartStep
  \/ UpdateQuantityStep
  \/ ClearCart
  \/ Checkout
  \/ RemotePutStep
  \/ RemoteGetStep
  \/ RemoteDeleteStep
  \/ RemoteOrderStep
  \/ PutResolvedStep
  \/ PutRejectedStep
  \/ GetResolvedStep
  \/ GetRejectedStep
  \/ DeleteResolvedStep
  \/ DeleteRejectedStep
  \/ OrderResolvedStep
  \/ OrderRejectedStep

Spec == Init /\ [][Next]_vars

\* The same application driven by a caller that awaits the completion of
\* each operation before it starts the next one.
SeqNext ==
  \/ Mount
  \/ (net = <<>> /\ Login)
  \/ (net = <<>> /\ Logout)
  \/ (net = <<>> /\ LoadCart)
  \/ (net = <<>> /\ AddToCartStep)
  \/ (net = <<>> /\ RemoveFromCartStep)
  \/ (net = <<>> /\ UpdateQuantityStep)
  \/ (net = <<>> /\ ClearCart)
  \/ (net = <<>> /\ Checkout)
  \/ SystemStep

SeqSpec == Init /\ [][SeqNext]_vars

\* The mutations of the cart with the history of what the user added kept.
TrackedAddToCart(d, q) ==
  LET newItems == AddItems(items, d, q, IF isAuthenticated THEN "auth" ELSE "anon") IN
  /\ UserCall
  /\ q > 0
  /\ QtyInRange(newItems)
  /\ SyncToBackend(newItems, Call("addToCart", d, q))
  /\ added' = added \cup {d}

TrackedRemoveFromCart(d) ==
  /\ UserCall
  /\ SyncToBackend(RemoveItems(items, d), Call("removeFromCart", d, 0))
  /\ added' = added \ {d}

\* the oldest request the remote has not handled yet
IsFirstSent(i) ==
  /\ net[i].state = "sent"
  /\ \A j \in 1..(i - 1) : net[j].state # "sent"

\* The application with a remote that handles the requests in the order
\* they were issued, accepts every line it is sent and never fails, and a
\* network that delivers the responses in that order.
FifoNext ==
  \/ Mount
  \/ \E d \in Dishes : TrackedAddToCart(d, 1)
  \/ \E d \in Dishes : TrackedRemoveFromCart(d)
  \/ \E i \in 1..Len(net) : IsFirstSent(i) /\ RemotePut(i, {})
  \/ \E i \in 1..Len(net) : IsFirstSent(i) /\ RemoteGet(i)
  \/ (net # <<>> /\ PutResolved(1))
  \/ (net # <<>> /\ GetResolved(1))

FifoSpec == Init /\ [][FifoNext]_vars


\* --------------------------------------------- Login and Signup pages
MaxClock == 2

\* bodies an auth endpoint may answer a rejected request with
BodyErrors == {Abs, Str(""), Str("Email already registered"), Num(42), Num(0)}
BodyMessages == {Abs, Str(""), Str("Validation failed"), Num(7)}
BodyErrorMaps ==
  { <<>>,
    <<Str("Email is invalid")>>,
    <<Str(""), Str("Password is too short")>>,
    <<Arr(<<Str("Name is required")>>)>>,
    <<Arr(<<>>), Str("Password is too short")>>,
    <<Arr(<<Num(9)>>)>>,
    <<Num(3)>> }

AuthBodies ==
  {NoBody, EmptyBody}
    \cup {Body(e, m, FALSE, <<>>) : e \in BodyErrors, m \in BodyMessages}
    \cup {Body(e, m, TRUE, v) : e \in {Abs, Str("")}, m \in {Abs, Num(0)}, v \in BodyErrorMaps}

\* rate-limit headers a response may carry
AuthHeaders ==
  { Headers(l, r, t, a) :
      l \in {Missing, Header(5)},
      r \in {Missing, Header(0), Header(1), Header(-1), NaNHeader},
      t \in {Missing, Header(1), Header(61), Header(600), Header(3601), Header(7300)},
      a \in {Missing, Header(1), Header(30), Header(90), Header(7300), NaNHeader} }

\* what authService.login and authService.signup may reject with
AuthFailures ==
  {NoFailure}
    \cup {AxiosFailure(st, b, NoHeaders) : st \in {400, 401, 500}, b \in AuthBodies}
    \cup {AxiosFailure(st, b, h) :
            st \in {429, 403},
            b \in {NoBody, EmptyBody, Body(Str("Slow down"), Abs, FALSE, <<>>)},
            h \in AuthHeaders}
    \cup {AxiosFailure(st, b, NoHeaders) :
            st \in {404, 418, 502, 503, 504}, b \in {NoBody, EmptyBody}}

\* AuthContext.login and AuthContext.signup: the catch rethrows a new Error
\* that carries the classified message
AuthContextThrows(f) == PlainError(ErrorText(getErrorMessage(f)))

\* if (rateLimitInfo?.reset)
TruthyNumber(x) == ~x.nan /\ x.n # 0

\* the rate-limit check of the pages' catch: the new value of rateLimitReset
RateLimitResetAfter(fm, err) ==
  IF err.axios /\ err.response /\ err.status = 429
       /\ getRateLimitInfo(err).present /\ TruthyNumber(getRateLimitInfo(err).reset)
  THEN [set |-> TRUE, n |-> getRateLimitInfo(err).reset.n]
  ELSE fm.rateLimitReset

\* updateCountdown of the countdown effect
updateCountdown(fm, now) ==
  IF fm.rateLimitReset.n - now <= 0
  THEN [fm EXCEPT !.rateLimitReset = [set |-> FALSE, n |-> 0],
                  !.retryCountdown = "", !.error = ""]
  ELSE [fm EXCEPT !.retryCountdown =
          formatRetryTime([nan |-> FALSE, n |-> fm.rateLimitReset.n], now)]

\* the countdown effect, which runs when rateLimitReset has changed
CountdownEffect(old, fm, now) ==
  IF fm.rateLimitReset = old.rateLimitReset THEN fm
  ELSE IF ~fm.rateLimitReset.set THEN [fm EXCEPT !.retryCountdown = ""]
  ELSE updateCountdown(fm, now)

\* onSubmit up to its await; the button is disabled while rateLimitReset is
\* set and while the form is loading.  Login clears rateLimitReset, Signup
\* does not.
Submit ==
  /\ ~session.isLoading /\ ~session.user /\ ~session.reloading
  /\ form.attempt \in {"idle", "rejected"}
  /\ ~form.rateLimitReset.set
  /\ ~form.isLoading
  /\ form' = CountdownEffect(form,
               [form EXCEPT !.isLoading = TRUE, !.error = "", !.attempt = "pending",
                            !.rateLimitReset =
                               IF form.page = "login" THEN [set |-> FALSE, n |-> 0] ELSE @],
               clock)
  /\ thrown' = NoFailure
  /\ UNCHANGED <<clock, session>>
  /\ UNCHANGED cartVars

\* the response interceptor: a 401 removes AUTH_TOKEN and USER and assigns
\* window.location.href = '/login'
Intercepted(a, f) ==
  IF f.axios /\ f.response /\ f.status = 401
  THEN [a EXCEPT !.token = FALSE, !.storedUser = "absent", !.reloading = TRUE]
  ELSE a

\* the catch and finally of onSubmit for the error err
Caught(fm, err, now) ==
  CountdownEffect(fm,
    [fm EXCEPT !.isLoading = FALSE, !.attempt = "rejected",
               !.error = ErrorText(getErrorMessage(err)),
               !.rateLimitReset = RateLimitResetAfter(fm, err)],
    now)

\* what POST /session/login may answer with status 200: a token with a user
\* that has id, email and role, no token or no user, or a user that lacks
\* one of the fields
LoginResponses == {"valid", "incomplete", "invalid-user"}

LoginResponseError(resp) ==
  IF resp = "incomplete" THEN PlainError("Invalid login response from server")
  ELSE PlainError("Invalid user data received from server")

\* the awaited login or signup resolved.  AuthContext.login validates the
\* response, stores token and user and sets the user, or throws; the page
\* navigates on success.
SubmitResolved ==
  /\ form.attempt = "pending"
  /\ \/ /\ form.page = "signup"
        /\ form' = [form EXCEPT !.isLoading = FALSE, !.attempt = "done"]
        /\ UNCHANGED <<thrown, session>>
     \/ /\ form.page = "login"
        /\ \E resp \in LoginResponses :
             IF resp = "valid"
             THEN /\ session' = [session EXCEPT !.token = TRUE, !.storedUser = "valid", !.user = TRUE]
                  /\ form' = [form EXCEPT !.isLoading = FALSE, !.attempt = "done"]
                  /\ UNCHANGED thrown
             ELSE /\ thrown' = LoginResponseError(resp)
                  /\ form' = Caught(form, AuthContextThrows(LoginResponseError(resp)), clock)
                  /\ UNCHANGED session
  /\ UNCHANGED clock
  /\ UNCHANGED cartVars

\* the awaited login or signup rejected: the service threw f, the context
\* rethrew, and the catch and finally of onSubmit ran
SubmitRejected ==
  /\ form.attempt = "pending"
  /\ \E f \in AuthFailures :
       /\ thrown' = f
       /\ session' = Intercepted(session, f)
       /\ form' = Caught(form, AuthContextThrows(f), clock)
  /\ UNCHANGED clock
  /\ UNCHANGED cartVars

\* a second passes; the interval of the countdown effect fires while
\* rateLimitReset is set
Tick ==
  /\ clock < MaxClock
  /\ clock' = clock + 1
  /\ form' = IF form.rateLimitReset.set THEN updateCountdown(form, clock + 1) ELSE form
  /\ UNCHANGED <<thrown, session>>
  /\ UNCHANGED cartVars

\* the mount effect of AuthProvider
loadUser ==
  /\ session.isLoading /\ ~session.reloading
  /\ session' =
       IF session.storedUser # "absent" /\ session.token
       THEN IF session.storedUser = "valid"
            THEN [session EXCEPT !.user = TRUE, !.isLoading = FALSE]
            ELSE [session EXCEPT !.token = FALSE, !.storedUser = "absent", !.isLoading = FALSE]
       ELSE [session EXCEPT !.isLoading = FALSE]
  /\ UNCHANGED <<form, clock, thrown>>
  /\ UNCHANGED cartVars

\* AuthContext.logout; the routes then show the login page, mounted anew
AuthLogout ==
  /\ session.user /\ ~session.reloading
  /\ session' = [session EXCEPT !.token = FALSE, !.storedUser = "absent", !.user = FALSE]
  /\ form' = InitialForm("login")
  /\ UNCHANGED <<clock, thrown>>
  /\ UNCHANGED cartVars

\* a request of the running application other than the pending login or
\* signup is answered with 401
Unauthorized ==
  /\ ~session.isLoading /\ ~session.reloading
  /\ form.attempt # "pending"
  /\ session' = Intercepted(session, AxiosFailure(401, EmptyBody, NoHeaders))
  /\ UNCHANGED <<form, clock, thrown>>
  /\ UNCHANGED cartVars

\* the document of /login replaces the running application: every React
\* state starts anew
PageLoad ==
  /\ session.reloading
  /\ session' = [session EXCEPT !.user = FALSE, !.isLoading = TRUE, !.reloading = FALSE]
  /\ form' = InitialForm("login")
  /\ UNCHANGED <<clock, thrown>>
  /\ UNCHANGED cartVars

PageInit ==
  /\ phase = "constructed"
  /\ storedSession = FALSE
  /\ isAuthenticated = FALSE
  /\ items = <<>>
  /\ isLoading = FALSE
  /\ localCart = Absent
  /\ remoteCart = <<>>
  /\ net = <<>>
  /\ outcome = NoOutcome
  /\ nOps = 0
  /\ added = {}
  /\ form \in {InitialForm("login"), InitialForm("signup")}
  /\ clock = 0
  /\ thrown = NoFailure
  /\ session \in {AuthState(FALSE, TRUE, t, u) :
                 t \in BOOLEAN, u \in {"absent", "corrupt", "invalid", "valid"}}

PageNext ==
  \/ loadUser
  \/ Submit
  \/ SubmitResolved
  \/ SubmitRejected
  \/ AuthLogout
  \/ Unauthorized
  \/ PageLoad
  \/ Tick

PageSpec == PageInit /\ [][PageNext]_vars

\* The pages with time that passes: the clock keeps advancing up to the
\* bound, whatever the user does.
PageLiveSpec == PageInit /\ [][PageNext]_vars /\ WF_vars(Tick)


\* ================================================================= claims

C2_QuantityAlwaysPositive ==
  \A i \in 1..Len(items) : items[i].numQty /\ items[i].quantity > 0

C4_ClearCartAlwaysEmpties ==
  outcome.op = "clear" /\ outcome.status # "pending" =>
    /\ outcome.status = "resolved"
    /\ outcome.message = ""
    /\ items = <<>>
    /\ localCart = Absent

\* a clear whose DELETE failed: the remote still holds the cart, memory and
\* local storage do not
C4_Witness ==
  /\ outcome.op = "clear" /\ outcome.status = "resolved"
  /\ outcome.req.kind = "DELETE" /\ outcome.req.state = "fail"
  /\ remoteCart # <<>>
  /\ items = <<>> /\ localCart = Absent

\* C5: every authenticated mutation issues its own PUT /cart, and the
\* response of a PUT is adopted as in-memory cart and local mirror whenever
\* it arrives, also after the response of a later PUT.
C5_NoRequestSequencing ==
  [][ /\ (outcome'.op = "persist" /\ outcome'.status = "pending") =>
           /\ Len(net') = Len(net) + 1
           /\ net'[Len(net')].kind = "PUT"
           /\ net'[Len(net')].state = "sent"
           /\ net'[Len(net')].sent = ItemsToSync(items')
      /\ (outcome'.op = "persist" /\ outcome'.status = "resolved"
            /\ outcome'.req.kind = "PUT") =>
           /\ items' = outcome'.req.resp
           /\ localCart' = Stored(outcome'.req.resp) ]_vars

\* the response of the earlier of two PUTs arrived last and replaced the
\* cart of the later one
C5_Witness ==
  /\ outcome.op = "persist" /\ outcome.status = "resolved"
  /\ outcome.req.kind = "PUT" /\ outcome.req.overtaken
  /\ items = outcome.req.resp
  /\ items # remoteCart
  /\ localCart = Stored(items)


\* C6: after a login or logout the previously loaded in-memory cart is
\* discarded: once the load of the transition completes, the in-memory cart
\* is the validated content of the newly selected store, empty when that
\* store has nothing.
C6_TransitionDiscardsCart ==
  [][ /\ (isAuthenticated /\ ~isAuthenticated') =>
           items' = (IF localCart'.kind = "list" THEN FilterLocal(localCart'.list) ELSE <<>>)
      /\ (outcome'.op = "load" /\ outcome'.req.kind = "GET" /\ outcome'.req.state = "ok") =>
           items' = FilterRemote(outcome'.req.resp) ]_vars

\* C7: after login no PUT /cart carries a line that is in the cart only
\* because the anonymous local cart held it.
C7_AnonymousLinesNeverSent ==
  \A i \in 1..Len(net) :
    net[i].kind = "PUT" =>
      \A k \in 1..Len(net[i].optimistic) : net[i].optimistic[k].origin # "anon"

\* C8: a cart operation invoked while unauthenticated issues no remote cart
\* request, and one invoked while authenticated always goes to the remote.
C8_StoreFromCurrentAuthFlag ==
  outcome.op \in {"load", "persist", "clear"} =>
    /\ outcome.status = "pending" => isAuthenticated
    /\ (outcome.status = "resolved" /\ outcome.req.kind = "none") => ~isAuthenticated

\* C9: updateQuantity(id, q) with q <= 0 yields the in-memory cart, the
\* store content, the request and the outcome of removeFromCart(id): the
\* lines of dish id are dropped and every other line is kept as it was.
C9_NonPositiveUpdateIsRemove ==
  [][ (outcome'.call.name = "updateQuantity" /\ outcome'.call.qty <= 0) =>
        LET d == outcome'.call.dish
            kept == SelectSeq(items, LAMBDA item : item.dish # d)
        IN /\ items' = kept
           /\ outcome'.op = "persist"
           /\ ~isAuthenticated =>
                /\ localCart' = Stored(kept)
                /\ outcome'.status = "resolved"
                /\ Len(net') = Len(net)
           /\ isAuthenticated =>
                /\ localCart' = localCart
                /\ outcome'.status = "pending"
                /\ Len(net') = Len(net) + 1
                /\ net'[Len(net')] = Request("PUT", ItemsToSync(kept), kept, TRUE) ]_vars

\* updateQuantity with a negative quantity dropped one of two lines that
\* local storage mirrors, and its PUT is in flight
C9_Witness ==
  /\ outcome.call.name = "updateQuantity" /\ outcome.call.qty < 0
  /\ outcome.status = "pending"
  /\ localCart.kind = "list" /\ Len(localCart.list) = 2
  /\ FilterLocal(localCart.list) = localCart.list
  /\ \E k \in 1..2 : localCart.list[k].dish = outcome.call.dish
  /\ Len(items) = 1 /\ items[1] \in {localCart.list[1], localCart.list[2]} /\ items[1].dish # outcome.call.dish
  /\ net[Len(net)].sent = ItemsToSync(items)

\* C10: addToCart(dish, q) adds q to the quantity of the line of dish.id and
\* leaves number, order and content of the other lines alone, or appends one
\* line {dish, q} when there is none; the new list is in memory while the
\* persist is still pending.
C10_AddIncrementsOrAppends ==
  [][ outcome'.call.name = "addToCart" =>
        LET d == outcome'.call.dish
            q == outcome'.call.qty
        IN /\ (\E i \in 1..Len(items) : items[i].dish = d) =>
                /\ Len(items') = Len(items)
                /\ \A i \in 1..Len(items) :
                     /\ items[i].dish = d =>
                          items'[i] = [items[i] EXCEPT !.quantity = items[i].quantity + q]
                     /\ items[i].dish # d => items'[i] = items[i]
           /\ (\A i \in 1..Len(items) : items[i].dish # d) =>
                /\ Len(items') = Len(items) + 1
                /\ SubSeq(items', 1, Len(items)) = items
                /\ items'[Len(items')].dish = d
                /\ items'[Len(items')].quantity = q
           /\ isAuthenticated =>
                /\ outcome'.status = "pending"
                /\ net'[Len(net')].kind = "PUT" /\ net'[Len(net')].state = "sent"
                /\ net'[Len(net')].optimistic = items' ]_vars

\* one more of the second dish of a two-line cart was added while logged
\* in: its quantity went from 1 to 2 and the PUT is still in flight
C10_Witness ==
  /\ outcome.call.name = "addToCart" /\ outcome.call.qty = 1
  /\ outcome.status = "pending"
  /\ Len(items) = 2
  /\ items[2].dish = outcome.call.dish /\ items[2].quantity = 2
  /\ localCart.kind = "list" /\ Len(localCart.list) = 2
  /\ localCart.list[2].dish = outcome.call.dish /\ localCart.list[2].quantity = 1
  /\ localCart.list[1] = items[1] /\ items[1].origin = "auth"
  /\ net[Len(net)].state = "sent"

\* C11: an unauthenticated loadCart over a stored list yields exactly the
\* stored entries that have a dish identifier, a numeric quantity and a
\* numeric price, in stored order, and does not fail.
C11_LocalLoadKeepsOnlyPricedLines ==
  (outcome.op = "load" /\ outcome.req.kind = "none" /\ localCart.kind = "list") =>
    /\ outcome.status = "resolved"
    /\ items = SelectSeq(localCart.list,
                         LAMBDA item : item.dish # "" /\ item.numQty /\ item.price = "num")

\* C12: loadCart never rejects: when GET /cart fails the in-memory cart
\* becomes the filtered content of local storage, the empty cart when the
\* entry is absent or does not parse to a list, and isLoading ends false.
C12_LoadNeverRejects ==
  [][ /\ outcome'.op = "load" => outcome'.status \in {"pending", "resolved"}
      /\ (outcome'.op = "load" /\ outcome'.req.kind = "GET") =>
           /\ outcome'.status = "resolved"
           /\ outcome'.message = ""
           /\ ~isLoading'
      /\ (outcome'.op = "load" /\ outcome'.req.kind = "GET"
            /\ outcome'.req.state = "fail") =>
           /\ items' = (IF localCart.kind = "list"
                          THEN SelectSeq(localCart.list, ValidLocalItem)
                          ELSE <<>>)
           /\ localCart' = localCart ]_vars

\* GET /cart failed over a partly corrupt stored list: the cart is what the
\* filter left of it
C12_Witness ==
  /\ outcome.op = "load" /\ outcome.status = "resolved"
  /\ outcome.req.kind = "GET" /\ outcome.req.state = "fail"
  /\ localCart.kind = "list"
  /\ items # <<>> /\ Len(items) < Len(localCart.list)
  /\ items = FilterLocal(localCart.list)
  /\ ~isLoading

\* C13: when a remote load or a remote persist completes successfully, the
\* in-memory cart is the list the remote returned (filtered, for the load)
\* and local storage mirrors that list.
C13_RemoteSuccessAdoptedAndMirrored ==
  (outcome.status = "resolved" /\ outcome.req.state = "ok"
     /\ outcome.req.kind \in {"GET", "PUT"}) =>
    /\ outcome.op = (IF outcome.req.kind = "GET" THEN "load" ELSE "persist")
    /\ items = (IF outcome.req.kind = "GET"
                  THEN FilterRemote(outcome.req.resp)
                  ELSE outcome.req.resp)
    /\ localCart = Stored(items)

\* a load adopted the valid lines of a response that held an invalid one,
\* replacing a local entry that did not parse
C13_Witness ==
  /\ outcome.op = "load" /\ outcome.status = "resolved"
  /\ outcome.req.kind = "GET" /\ outcome.req.state = "ok"
  /\ Len(outcome.req.resp) = 3 /\ Len(items) = 2
  /\ localCart = Stored(items)

\* C14: while unauthenticated, a completed addToCart, removeFromCart or
\* updateQuantity leaves in local storage exactly the in-memory list, and
\* the operation resolves.
C14_AnonymousMutationWritesStore ==
  (outcome.call.name \in {"addToCart", "removeFromCart", "updateQuantity"}
     /\ ~isAuthenticated) =>
    /\ outcome.op = "persist"
    /\ outcome.status = "resolved"
    /\ outcome.message = ""
    /\ localCart = Stored(items)

\* an anonymous updateQuantity changed a line and the store holds the result
C14_Witness ==
  /\ ~isAuthenticated
  /\ outcome.call.name = "updateQuantity" /\ outcome.call.qty = 2
  /\ outcome.status = "resolved"
  /\ \E i \in 1..Len(items) :
        items[i].dish = outcome.call.dish /\ items[i].quantity = 2
  /\ localCart = Stored(items)

\* C16: in every cart state totalItems is the sum of the quantities of all
\* lines and totalPrice is the sum of price times quantity over all lines.
C16_TotalsAreSumsOverAllLines ==
  /\ \A i \in 1..Len(items) : items[i].numQty /\ items[i].price = "num"
  /\ totalItems(items) =
       (LET F[n \in 0..Len(items)] ==
              IF n = 0 THEN 0 ELSE F[n - 1] + items[n].quantity
        IN F[Len(items)])
  /\ totalPrice(items) =
       (LET G[n \in 0..Len(items)] ==
              IF n = 0 THEN 0 ELSE G[n - 1] + PriceOf[items[n].dish] * items[n].quantity
        IN G[Len(items)])

C17_RateLimitedSubmitDisabled ==
  ( /\ form.attempt = "rejected"
    /\ thrown.axios /\ thrown.response /\ thrown.status = 429
    /\ thrown.headers.reset.present /\ ~thrown.headers.reset.nan
    /\ thrown.headers.reset.n > clock )
  => (form.rateLimitReset.set /\ form.retryCountdown # "")

\* C18: getRateLimitInfo returns a value only for a failure with status 429
\* for which limit > 0, remaining >= 0 or reset > 0 holds; in that value a
\* missing numeric header reads 0 and a missing retry-after is absent; a
\* failure with another status yields nothing whatever its headers are.
C18_RateLimitInfoOnlyFor429 ==
  LET info == getRateLimitInfo(thrown)
      h == thrown.headers
      zero == [nan |-> FALSE, n |-> 0]
  IN /\ info.present =>
          /\ thrown.axios /\ thrown.response /\ thrown.status = 429
          /\ Gt(info.limit, 0) \/ Ge(info.remaining, 0) \/ Gt(info.reset, 0)
          /\ info.limit = (IF h.limit.present THEN [nan |-> h.limit.nan, n |-> h.limit.n] ELSE zero)
          /\ info.remaining =
               (IF h.remaining.present THEN [nan |-> h.remaining.nan, n |-> h.remaining.n] ELSE zero)
          /\ info.reset = (IF h.reset.present THEN [nan |-> h.reset.nan, n |-> h.reset.n] ELSE zero)
          /\ info.hasRetryAfter = h.retryAfter.present
     /\ thrown.status # 429 => ~info.present

\* a rejected attempt whose 429 response carried no rate-limit header at
\* all: the info exists, with every number read as 0 and no retry-after
C18_Witness ==
  /\ form.attempt = "rejected"
  /\ thrown.axios /\ thrown.response /\ thrown.status = 429
  /\ thrown.headers = NoHeaders
  /\ getRateLimitInfo(thrown).present
  /\ getRateLimitInfo(thrown).limit.n = 0
  /\ ~getRateLimitInfo(thrown).hasRetryAfter

\* C19: for a 429 response whose body yields no message, the classified
\* message is the detailed rate-limit message when rate-limit info is
\* available, and the generic "Too many requests" sentence when the
\* response carries none of the rate-limit headers.
C19_GenericMessageWithoutHeaders ==
  ( /\ form.attempt = "rejected"
    /\ thrown.axios /\ thrown.response /\ thrown.status = 429
    /\ thrown.body \in {NoBody, EmptyBody} )
  => IF thrown.headers = NoHeaders
     THEN form.error = "Too many requests. Please wait a moment and try again."
     ELSE getRateLimitInfo(thrown).present =>
            \E now \in 0..clock :
               /\ getRateLimitMessage(thrown, now) # ""
               /\ form.error = getRateLimitMessage(thrown, now)

\* C20: for a failure with a response the classified message is the first
\* non-empty string among the body's error field, its message field and the
\* first value of the errors map (the first element of that value when it
\* is an array); an empty or non-string field is never returned, and the
\* status table applies only when none of them is a non-empty string.
C20_FirstNonEmptyString ==
  LET data == thrown.body
      IsText(v) == v.t = "str" /\ v.s # ""
      firstError ==
        IF data.hasErrors /\ data.errors # <<>>
        THEN IF data.errors[1].t = "arr"
             THEN IF data.errors[1].arr # <<>> THEN data.errors[1].arr[1] ELSE Abs
             ELSE data.errors[1]
        ELSE Abs
  IN (form.attempt = "rejected" /\ thrown.axios /\ thrown.response)
     => IF IsText(data.error) THEN form.error = data.error.s
        ELSE IF IsText(data.message) THEN form.error = data.message.s
        ELSE IF IsText(firstError) THEN form.error = firstError.s
        ELSE \E now \in 0..clock : form.error = StatusMessage(thrown, now)

\* C21: when the response body yields no message, the classified message is
\* a function of the HTTP status alone: 400, 401, 403, 404 and 500 have
\* their own sentences, 502, 503 and 504 share one, and every other status s
\* gives "An error occurred (s). Please try again.".
C21_StatusTable ==
  ( /\ form.attempt = "rejected"
    /\ thrown.axios /\ thrown.response
    /\ ~Truthy(thrown.body.error) /\ ~Truthy(thrown.body.message)
    /\ ~thrown.body.hasErrors \/ thrown.body.errors = <<>> )
  => form.error =
       CASE thrown.status = 400 -> "Invalid request. Please check your input and try again."
         [] thrown.status = 401 -> "Invalid credentials. Please check your email and password."
         [] thrown.status = 403 -> "You do not have permission to perform this action."
         [] thrown.status = 404 -> "The requested resource was not found."
         [] thrown.status = 500 -> "Server error. Please try again later."
         [] thrown.status \in {502, 503, 504} ->
              "Service temporarily unavailable. Please try again later."
         [] OTHER -> "An error occurred (" \o ToString(thrown.status) \o "). Please try again."

\* C21 amended: the same table for every status other than 429, whose
\* message depends on the rate-limit headers and on the time.
C21_StatusTableExcept429 ==
  thrown.status # 429 => C21_StatusTable

\* a 503 and an unlisted status, each with an empty body, were classified
C21_Witness ==
  /\ form.attempt = "rejected"
  /\ thrown.axios /\ thrown.response /\ thrown.body = EmptyBody
  /\ \/ thrown.status = 503
          /\ form.error = "Service temporarily unavailable. Please try again later."
     \/ thrown.status = 418 /\ form.error = "An error occurred (418). Please try again."

\* C22: getRateLimitMessage is absent exactly when getRateLimitInfo is
\* absent; otherwise a present retry-after is used first, then a reset > 0
\* through formatRetryTime, then the remaining-attempts message when
\* limit > 0 and remaining >= 0, and the generic phrase last.
C22_RateLimitMessagePrecedence ==
  LET info == getRateLimitInfo(thrown)
      msg == getRateLimitMessage(thrown, clock)
      ra == info.retryAfter
      retryTexts ==
        { "Too many attempts. Please try again in " \o NumText(ra) \o " second" \o Plural(ra) \o ".",
          "Too many attempts. Please try again in " \o NumText(DivFloor(ra, 60)) \o " minute"
             \o Plural(DivFloor(ra, 60)) \o ".",
          "Too many attempts. Please try again in " \o NumText(DivFloor(ra, 3600)) \o " hour"
             \o Plural(DivFloor(ra, 3600)) \o "." }
  IN /\ (msg = "") <=> ~info.present
     /\ info.present =>
          IF info.hasRetryAfter THEN msg \in retryTexts
          ELSE IF Gt(info.reset, 0)
          THEN msg = "Too many attempts. You can try again "
                       \o formatRetryTime(info.reset, clock) \o "."
          ELSE IF Gt(info.limit, 0) /\ Ge(info.remaining, 0)
          THEN msg = "Too many attempts. " \o NumText(info.remaining) \o " attempt"
                       \o Plural(info.remaining) \o " remaining. Please try again later."
          ELSE msg = "Too many attempts. Please try again later."
     /\ (info.present /\ info.hasRetryAfter /\ ~ra.nan /\ ra.n = 30) =>
          msg = "Too many attempts. Please try again in 30 seconds."

\* a 429 that carried retry-after: 30 together with a reset time was
\* classified, and the message shown names the 30 seconds
C22_Witness ==
  /\ form.attempt = "rejected"
  /\ thrown.axios /\ thrown.response /\ thrown.status = 429
  /\ thrown.body = EmptyBody
  /\ thrown.headers.retryAfter = Header(30)
  /\ thrown.headers.reset = Header(600)
  /\ form.error = "Too many attempts. Please try again in 30 seconds."

\* C23: with d = reset minus the current time in whole seconds,
\* formatRetryTime gives "now" when d <= 0, "in d second(s)" when
\* 0 < d < 60, "in floor(d/60) minute(s)" when 60 <= d < 3600 and
\* "in floor(d/3600) hour(s)" otherwise; the unit is singular exactly when
\* the printed number is 1.
C23_FormatRetryTime ==
  LET r == thrown.headers.reset
      d == r.n - clock
      Text(k, unit) == "in " \o ToString(k) \o " " \o unit \o (IF k = 1 THEN "" ELSE "s")
  IN (r.present /\ ~r.nan) =>
       formatRetryTime([nan |-> FALSE, n |-> r.n], clock) =
         IF d <= 0 THEN "now"
         ELSE IF d < 60 THEN Text(d, "second")
         ELSE IF d < 3600 THEN Text(d \div 60, "minute")
         ELSE Text(d \div 3600, "hour")

\* a 429 whose reset time lay one hour and one second ahead was classified,
\* and the message shown says "in 1 hour"
C23_Witness ==
  /\ form.attempt = "rejected"
  /\ thrown.axios /\ thrown.response /\ thrown.status = 429
  /\ thrown.body = EmptyBody
  /\ ~thrown.headers.retryAfter.present
  /\ thrown.headers.reset = Header(3601)
  /\ form.error = "Too many attempts. You can try again in 1 hour."

\* C24: after a rejection that named a reset time, once the clock has
\* reached that time the form eventually returns to the enabled state:
\* reset time cleared, countdown text cleared and error message cleared.
C24_CountdownReturnsToEnabled ==
  ( /\ form.attempt = "rejected"
    /\ thrown.axios /\ thrown.response /\ thrown.status = 429
    /\ thrown.headers.reset.present /\ ~thrown.headers.reset.nan
    /\ thrown.headers.reset.n > 0
    /\ clock >= thrown.headers.reset.n )
  ~> (~form.rateLimitReset.set /\ form.retryCountdown = "" /\ form.error = "")

C26_FailedLoginStaysOnPage ==
  [][ (form.page = "login" /\ form.attempt = "pending" /\ form'.attempt = "rejected") =>
        /\ ~session'.reloading
        /\ form'.page = "login"
        /\ form'.error = ErrorText(getErrorMessage(AuthContextThrows(thrown')))
        /\ ~session'.user
        /\ session'.token => session.token
        /\ session'.storedUser # "absent" => session'.storedUser = session.storedUser
    ]_vars

\* C30: after application start, logins, logouts and 401 responses,
\* isAuthenticated is true only when local storage holds the token and a
\* stored user with id, email and role; a failed login changes neither the
\* user state nor local storage; logout removes both entries and sets the
\* user to null.
C30_AuthStateMatchesStorage ==
  [][ /\ session'.user => (session'.token /\ session'.storedUser = "valid")
      /\ (form.page = "login" /\ form.attempt = "pending" /\ form'.attempt = "rejected") =>
            /\ session'.user = session.user
            /\ session'.token = session.token
            /\ session'.storedUser = session.storedUser
      /\ (session.user /\ ~session'.user /\ ~session.reloading) =>
            (~session'.token /\ session'.storedUser = "absent")
    ]_vars

\* C27: in an anonymous session neither the in-memory cart nor the cart
\* entry of local storage holds a line that came from the authenticated
\* cart, also when the response to a request issued before the logout
\* arrives after it.
C27_AnonymousCartHasNoAccountLines ==
  (phase = "mounted" /\ ~isAuthenticated) =>
    /\ \A i \in 1..Len(items) : items[i].origin # "auth"
    /\ \A i \in 1..Len(localCart.list) : localCart.list[i].origin # "auth"

\* C28: once clearCart has completed, the in-memory cart stays empty and
\* the cart entry of local storage stays absent until the user adds or
\* updates or a load runs; in particular the response to a persist issued
\* before the clear repopulates neither.  Stated for the step that follows
\* the completion.
C28_ClearedCartStaysEmpty ==
  [][ ( /\ outcome.op = "clear" /\ outcome.status = "resolved"
        /\ items = <<>> /\ localCart = Absent
        /\ outcome'.call = NoCall /\ outcome'.op # "load" )
      => (items' = <<>> /\ localCart' = Absent) ]_vars

\* C29: when every call succeeds, the remote returns the set it was sent
\* and the responses arrive in the order of the requests, then once all
\* calls have completed the in-memory cart and, for a logged-in user, the
\* remote cart hold every dish the user added and did not remove later.
C29_NoAddIsLost ==
  (phase = "mounted" /\ net = <<>>) =>
    \A d \in added :
      /\ \E i \in 1..Len(items) : items[i].dish = d
      /\ isAuthenticated => \E i \in 1..Len(remoteCart) : remoteCart[i].dish = d

====
